---- MODULE Spec2Model ----
(***************************************************************************)
(* Tag-based article cache with supplementation: the evidence store        *)
(* (Phase1/utilities.py, Phase1/db_append.py) and the report orchestrator  *)
(* (Core_Workflow/report_generator.py, Phase1/report_generator.py).        *)
(*                                                                         *)
(* Python values are modelled as follows.  A str that the code only        *)
(* compares is a TLA+ string; a URL, which the code tests with             *)
(* startswith, is a sequence of one-character strings; a list is a         *)
(* sequence; a dict is a record whose field "keys" is the set of keys the  *)
(* dict holds, so that dict.get(k) on an absent key yields None.  The      *)
(* articles table is a function from the stored URLs (the primary key) to  *)
(* rows.  NOW() is read from a logical clock that every write call         *)
(* advances: each call opens a new connection before its transaction       *)
(* begins, so two write transactions never share a start time.             *)
(***************************************************************************)
EXTENDS Integers, Sequences, FiniteSets, TLC

VARIABLES store, clock, last, run,
          last_tool_output, invocation,
          report_queue, thread, script,
          search_api, time, requests

vars == <<store, clock, last, run, last_tool_output, invocation,
          report_queue, thread, script, search_api, time, requests>>

\* the report pipeline and its store
pipeline == <<store, clock, last, run>>

\* the agent, the dashboard and the search client
others == <<last_tool_output, invocation, report_queue, thread, script,
            search_api, time, requests>>

(***************************************************************************)
(* Bounds of the model.                                                    *)
(***************************************************************************)
\* rows a pre-existing store holds at most (URLs U(1)..U(MaxSeedRows))
MaxSeedRows == 8
\* articles in one direct append_articles / store_articles batch
MaxBatch == 2
\* candidates one Fetcher call returns at most
MaxFetch == 2
\* write calls on the store in one behaviour
MaxClock == 1
\* rows a pre-existing store holds at most when the store is called directly
MaxStoreSeed == 3
\* largest min_matches a direct query_database_by_tags call passes
MaxK == 4
\* keywords a keyword model ranks at most, and largest top_n
MaxKeywords == 3
\* seconds that pass while the search client is watched
MaxElapsed == 4
\* search_tweets calls on one GoogleSearchAPI instance
MaxRequests == 3
\* run_agent invocations in one process
MaxInvocations == 3
\* generate_report_tool calls the agent makes in one invocation
MaxToolCalls == 1
\* log lines run_agent writes while the dashboard polls
MaxLogs == 3

(***************************************************************************)
(* Program constants.                                                      *)
(***************************************************************************)
\* Core_Workflow/get_data_revised.py:50
MAX_RETRIES == 2
\* Core_Workflow/report_generator.py:15
MIN_ARTICLE_THRESHOLD == 7
\* Phase1/report_generator.py:15
MIN_ARTICLE_THRESHOLD_PHASE1 == 3
\* utilities.py:64, default of min_matches
DEFAULT_MIN_MATCHES == 4
\* utilities.py:13, default of top_n
DEFAULT_TOP_N == 5
\* utilities.py:22, threshold = 0.2, in hundredths
SCORE_THRESHOLD == 20

\* twitter_scrape/config.py:18: seconds between two search requests
REQUEST_DELAY == 2

(***************************************************************************)
(* Sequence helpers.                                                       *)
(***************************************************************************)
Range(s) == {s[i] : i \in 1..Len(s)}

RECURSIVE SelectIdx(_, _, _)
\* the sub-sequence of s at the positions i (ascending) with keep[i]
SelectIdx(s, keep, i) ==
    IF i > Len(s) THEN <<>>
    ELSE (IF keep[i] THEN <<s[i]>> ELSE <<>>) \o SelectIdx(s, keep, i + 1)

SeqsUpTo(S, n) == UNION {[1..m -> S] : m \in 0..n}

(***************************************************************************)
(* URLs.  str.startswith(prefix) on character sequences.                   *)
(***************************************************************************)
startswith(s, prefix) ==
    /\ Len(s) >= Len(prefix)
    /\ SubSeq(s, 1, Len(prefix)) = prefix

HttpPrefix == <<"h", "t", "t", "p">>

Digit(i) == <<"0", "1", "2", "3", "4", "5", "6", "7", "8", "9">>[i + 1]

\* "http://<i>"
U(i) == <<"h", "t", "t", "p", ":", "/", "/", Digit(i)>>
\* "https://n"
UNew == <<"h", "t", "t", "p", "s", ":", "/", "/", "n">>
\* "ftp://x"
UFtp == <<"f", "t", "p", ":", "/", "/", "x">>
\* ""
UEmpty == <<>>
\* None where a url is expected: no str equals it
UNone == <<"None">>

SeedURLs == {U(i) : i \in 1..MaxSeedRows}

(***************************************************************************)
(* The articles table: INSERT ... ON CONFLICT (url) DO NOTHING / DO UPDATE *)
(***************************************************************************)
Row(a, now) ==
    [summary |-> a.summary, query |-> a.query, tags |-> a.tags,
     retrieval_timestamp |-> now]

PutRow(st, a, now) ==
    [u \in DOMAIN st \cup {a.url} |-> IF u = a.url THEN Row(a, now) ELSE st[u]]

\* faulty variant: an offered row overwrites the stored one
RECURSIVE InsertOrSkipClobber(_, _, _)
InsertOrSkipClobber(st, batch, now) ==
    IF batch = <<>> THEN st
    ELSE InsertOrSkipClobber(PutRow(st, Head(batch), now), Tail(batch), now)

RECURSIVE InsertOrSkip(_, _, _)
\* utilities.py:133-148: rows are offered in batch order, a row whose url is
\* already in the table (or was inserted earlier in the batch) is skipped
InsertOrSkip(st, batch, now) ==
    IF batch = <<>> THEN st
    ELSE LET a == Head(batch)
             st1 == IF a.url \in DOMAIN st THEN st ELSE PutRow(st, a, now)
         IN InsertOrSkip(st1, Tail(batch), now)

\* the statement fails when one command would update a row twice
HasDuplicateUrl(batch) ==
    \E i, j \in 1..Len(batch) : i < j /\ batch[i].url = batch[j].url

\* faulty variant: an updated row keeps its retrieval_timestamp
RECURSIVE InsertOrUpdateKeepTime(_, _, _)
InsertOrUpdateKeepTime(st, batch, now) ==
    IF batch = <<>> THEN st
    ELSE LET a == Head(batch)
             st1 == IF a.url \in DOMAIN st
                    THEN PutRow(st, a, st[a.url].retrieval_timestamp)
                    ELSE PutRow(st, a, now)
         IN InsertOrUpdateKeepTime(st1, Tail(batch), now)

RECURSIVE InsertOrUpdate(_, _, _)
\* db_append.py:34-54: every offered row is written, retrieval_timestamp = NOW()
InsertOrUpdate(st, batch, now) ==
    IF batch = <<>> THEN st
    ELSE InsertOrUpdate(PutRow(st, Head(batch), now), Tail(batch), now)

(***************************************************************************)
(* query_database_by_tags                                                  *)
(***************************************************************************)
\* tags && %s : the two arrays have an element in common
Overlaps(rowTags, query_tags) == Range(rowTags) \cap Range(query_tags) # {}

\* len(set(row["tags"]).intersection(query_tags))
CommonCount(rowTags, query_tags) ==
    Cardinality(Range(rowTags) \cap Range(query_tags))

AsDict(st, u) ==
    [url |-> u, summary |-> st[u].summary, query |-> st[u].query,
     tags |-> st[u].tags, retrieval_timestamp |-> st[u].retrieval_timestamp,
     keys |-> {"url", "summary", "query", "tags", "retrieval_timestamp"}]

\* a NULL tags column: no text[] value equals it
NullTags == <<"NULL">>

\* faulty variant: the SELECT also yields the rows whose tags are NULL
CoarseFilterNull(rowTags, query_tags) ==
    rowTags = NullTags \/ Overlaps(rowTags, query_tags)

\* utilities.py:93, the storage-level filter of the SELECT; NULL && x is
\* NULL, which WHERE does not select
CoarseFilter(rowTags, query_tags) ==
    rowTags # NullTags /\ Overlaps(rowTags, query_tags)

\* faulty variant: the re-check accepts every fetched row
ExactRecheckNoCount(rowTags, query_tags, min_matches) ==
    min_matches >= 0 /\ CommonCount(rowTags, query_tags) >= 0

\* faulty variant: the re-check asks for more than min_matches common tags
ExactRecheckStrict(rowTags, query_tags, min_matches) ==
    CommonCount(rowTags, query_tags) > min_matches

\* utilities.py:98-100, the exact-count re-check of a fetched row
ExactRecheck(rowTags, query_tags, min_matches) ==
    CommonCount(rowTags, query_tags) >= min_matches

\* utilities.py:93-94: the urls of the rows fetchall() yields, in scan order
Fetched(st, query_tags, order) ==
    SelectIdx(order,
              [i \in 1..Len(order) |->
                  order[i] \in DOMAIN st /\ CoarseFilter(st[order[i]].tags, query_tags)],
              1)

\* utilities.py:98: set(None) raises TypeError on a fetched row whose tags
\* are NULL; the positions of such rows
FilterStops(st, fetched) ==
    {i \in 1..Len(fetched) : st[fetched[i]].tags = NullTags}

\* utilities.py:97-103: the fetched rows the loop gets through before the
\* except clause ends it
Scanned(st, fetched) ==
    LET bad == FilterStops(st, fetched)
    IN IF bad = {} THEN fetched
       ELSE SubSeq(fetched, 1, (CHOOSE i \in bad : \A j \in bad : i <= j) - 1)

\* whether the call gets to its end without entering the except clause; ok
\* is whether connect, execute and fetchall succeed
QueryCompletes(st, query_tags, order, ok) ==
    ok /\ FilterStops(st, Fetched(st, query_tags, order)) = {}

\* utilities.py:89-107; order is the order in which the scan yields the rows
\* (the SELECT has no ORDER BY); results holds what was appended before an
\* exception
query_database_by_tags(st, query_tags, min_matches, order, ok) ==
    IF ~ok THEN <<>>
    ELSE LET scanned == Scanned(st, Fetched(st, query_tags, order))
             keep == [i \in 1..Len(scanned) |->
                        ExactRecheck(st[scanned[i]].tags, query_tags, min_matches)]
             rows == SelectIdx(scanned, keep, 1)
         IN [i \in 1..Len(rows) |-> AsDict(st, rows[i])]

\* url is the primary key: a NULL url makes the INSERT fail
NullUrl(batch) == \E i \in 1..Len(batch) : batch[i].url = UNone

\* whether an append_articles call commits; ok is whether connect, execute
\* and commit succeed
AppendCommits(batch, ok) == ok /\ ~NullUrl(batch)

\* faulty variant: on a failure the rows of the batch stay inserted
append_articlesNoRollback(st, batch, now, ok) ==
    IF NullUrl(batch) THEN st ELSE InsertOrSkip(st, batch, now)

\* utilities.py:129-158: commit on success, rollback on any exception
append_articles(st, batch, now, ok) ==
    IF AppendCommits(batch, ok) THEN InsertOrSkip(st, batch, now) ELSE st

\* db_append.py:29-64: commit on success, rollback on any exception
store_articles(st, batch, now, ok) ==
    IF ok /\ ~HasDuplicateUrl(batch) /\ ~NullUrl(batch)
    THEN InsertOrUpdate(st, batch, now) ELSE st

(***************************************************************************)
(* Inputs.                                                                 *)
(***************************************************************************)
Reverse(s) == [i \in 1..Len(s) |-> s[Len(s) + 1 - i]]

UrlList == [i \in 1..MaxSeedRows |-> U(i)] \o <<UNew, UFtp, UEmpty>>

\* orders in which a scan of the table may yield its rows
ScanOrders == {UrlList, Reverse(UrlList)}

FullTags == <<"t1", "t2", "t3", "t4">>

\* the tags of the i-th row of a pre-existing store
SeedTags(i) ==
    IF i = 2 THEN <<"t1", "t5">>
    ELSE IF i = 3 THEN <<"t1", "t2", "t3", "t4", "t5">>
    ELSE FullTags

\* a store left by earlier runs: rows for U(1)..U(n), written at time 0
SeedStore(n) ==
    [u \in {U(i) : i \in 1..n} |->
        LET i == CHOOSE j \in 1..n : U(j) = u
        IN [summary |-> "seed", query |-> "qA", tags |-> SeedTags(i),
            retrieval_timestamp |-> 0]]

FullKeys == {"url", "summary", "query", "tags"}

Article(u, s, q, t) ==
    [url |-> u, summary |-> s, query |-> q, tags |-> t, keys |-> FullKeys]

\* articles a caller passes directly to append_articles / store_articles
DirectPool ==
    { Article(U(1), "s1", "qA", FullTags),
      Article(U(1), "s2", "qB", <<"t1", "t1">>),
      Article(UNew, "s1", "qA", <<"t1", "t2", "t3", "t4", "t5">>),
      Article(U(2), "s2", "qB", <<>>) }

\* tag lists a caller passes directly to query_database_by_tags
DirectQueryTags ==
    { <<>>, <<"t1">>, FullTags, <<"t1", "t1", "t2">>, <<"t5", "t6">> }

NoOp ==
    [op |-> "none", batch |-> <<>>, tags |-> <<>>, k |-> 0, pre |-> SeedStore(0),
     ok |-> FALSE, result |-> <<>>, now |-> 0]

Procs == {1, 2}

IdleRun ==
    [pc |-> "idle", version |-> "core", query |-> "", tags |-> <<>>,
     articles_from_db |-> <<>>, fetched |-> <<>>, supplementary_articles |-> <<>>,
     articles |-> <<>>, context |-> <<>>, result |-> "", calls |-> <<>>,
     store0 |-> SeedStore(0), extra_instructions |-> "", prompt |-> <<>>,
     generated |-> "", narration |-> "none", fetcher |-> "none"]

\* agent_langchain.py:31: last_tool_output = None
NoneReport == [query |-> "", invocation |-> 0]

\* no run_agent invocation under way
IdleInvocation ==
    [pc |-> "idle", id |-> 0, query |-> "", tool_calls |-> 0,
     final_answer |-> "", detailed_report |-> NoneReport]

\* dashboard/app.py: the worker thread before thread.start()
IdleThread == [pc |-> "unstarted", logs |-> 0, outcome |-> "none"]

\* dashboard/app.py:57-59: the dicts put on report_queue
Message(status, body) == [status |-> status, body |-> body]

\* no message taken from the queue yet
NoMessage == Message("none", "")

\* dashboard/app.py: the script before the button is pressed
IdleScript == [pc |-> "idle", query |-> "", shown |-> 0, result |-> NoMessage]

\* time.time() counts seconds from 1970, so it is never below REQUEST_DELAY
\* when a process starts; the least such value stands for all of them
StartTime == REQUEST_DELAY

\* search_api.py:16: self.last_query_time = 0
NewGoogleSearchAPI == [last_query_time |-> 0]

InitOthers ==
    /\ last_tool_output = NoneReport
    /\ invocation = [p \in Procs |-> IdleInvocation]
    /\ report_queue = <<>>
    /\ thread = IdleThread
    /\ script = IdleScript
    /\ search_api = NewGoogleSearchAPI
    /\ time = StartTime
    /\ requests = <<>>

(***************************************************************************)
(* Direct calls on the store.                                              *)
(***************************************************************************)
QueryDirect ==
    \E query_tags \in DirectQueryTags, k \in 0..MaxK, order \in ScanOrders,
       ok \in BOOLEAN :
        /\ last' = [op |-> "query", batch |-> <<>>, tags |-> query_tags, k |-> k,
                    pre |-> store,
                    ok |-> QueryCompletes(store, query_tags, order, ok),
                    now |-> clock,
                    result |-> query_database_by_tags(store, query_tags, k, order, ok)]
        /\ UNCHANGED <<store, clock, run>>
        /\ UNCHANGED others

AppendFrom(batches, writes) ==
    \E batch \in batches, ok \in BOOLEAN :
        /\ clock < writes
        /\ clock' = clock + 1
        /\ store' = append_articles(store, batch, clock', ok)
        /\ last' = [op |-> "append", batch |-> batch, tags |-> <<>>, k |-> 0,
                    pre |-> store, ok |-> AppendCommits(batch, ok), now |-> clock',
                    result |-> <<>>]
        /\ UNCHANGED run
        /\ UNCHANGED others

AppendDirect == AppendFrom(SeqsUpTo(DirectPool, MaxBatch), MaxClock)

StoreFrom(batches, writes) ==
    \E batch \in batches, ok \in BOOLEAN :
        /\ clock < writes
        /\ clock' = clock + 1
        /\ store' = store_articles(store, batch, clock', ok)
        /\ last' = [op |-> "store", batch |-> batch, tags |-> <<>>, k |-> 0,
                    pre |-> store, ok |-> ok /\ ~HasDuplicateUrl(batch),
                    now |-> clock', result |-> <<>>]
        /\ UNCHANGED run
        /\ UNCHANGED others

StoreDirect == StoreFrom(SeqsUpTo(DirectPool, MaxBatch), MaxClock)

InitStore ==
    /\ store \in {SeedStore(n) : n \in 0..MaxStoreSeed}
    /\ clock = 0
    /\ last = NoOp
    /\ run = [p \in Procs |-> IdleRun]
    /\ InitOthers

NextStore == QueryDirect \/ AppendDirect \/ StoreDirect

SpecStore == InitStore /\ [][NextStore]_vars

(***************************************************************************)
(* extract_tags                                                            *)
(***************************************************************************)
Queries == {"qA", "qB", "qC", ""}

KW(k, s) == [kw |-> k, score |-> s]

\* the top_n best of a ranking
TopN(all, top_n) == SubSeq(all, 1, IF Len(all) < top_n THEN Len(all) ELSE top_n)

\* kw_model.extract_keywords(query, ..., top_n): at most top_n (keyword,
\* score) pairs, scores in hundredths; "qC" holds stop-words only
KeywordModel(query, top_n) ==
    LET all == CASE query = "qA" -> <<KW("t1", 80), KW("t2", 60), KW("t3", 50),
                                      KW("t4", 30), KW("t5", 20), KW("t6", 10)>>
                 [] query = "qB" -> <<KW("t1", 50), KW("t7", 10)>>
                 [] OTHER -> <<>>
    IN TopN(all, top_n)

\* faulty variant: a score equal to the threshold passes
FilterKeywordsLax(keywords) ==
    LET keep == [i \in 1..Len(keywords) |-> keywords[i].score >= SCORE_THRESHOLD]
        kept == SelectIdx(keywords, keep, 1)
    IN [i \in 1..Len(kept) |-> kept[i].kw]

\* utilities.py:22-23
FilterKeywords(keywords) ==
    LET keep == [i \in 1..Len(keywords) |-> keywords[i].score > SCORE_THRESHOLD]
        kept == SelectIdx(keywords, keep, 1)
    IN [i \in 1..Len(kept) |-> kept[i].kw]

\* utilities.py:18-24
extract_tags(query, top_n) == FilterKeywords(KeywordModel(query, top_n))

\* (keyword, score) pairs a keyword model may rank, scores in hundredths
KeywordPool == {KW(k, sc) : k \in {"t1", "t2"}, sc \in {10, 20, 30}}

\* a call of extract_tags for a query whose keywords the model ranks as
\* ranked, made once from the initial state: the function keeps no state
ExtractTagsCall ==
    /\ last = NoOp
    /\ \E ranked \in SeqsUpTo(KeywordPool, MaxKeywords), top_n \in 0..MaxKeywords :
          LET keywords == TopN(ranked, top_n)
          IN last' = [op |-> "extract_tags", top_n |-> top_n, ranked |-> ranked,
                      keywords |-> keywords, result |-> FilterKeywords(keywords)]
    /\ UNCHANGED <<store, clock, run>>
    /\ UNCHANGED others

InitTags ==
    /\ store = SeedStore(0)
    /\ clock = 0
    /\ last = NoOp
    /\ run = [p \in Procs |-> IdleRun]
    /\ InitOthers

SpecTags == InitTags /\ [][ExtractTagsCall]_vars

(***************************************************************************)
(* The Fetcher: supplement_data                                            *)
(***************************************************************************)
Candidate(u, s) ==
    [url |-> u, summary |-> s, query |-> "", tags |-> <<>>, keys |-> {"url", "summary"}]

\* results the Fetcher may hand back, one dict per URL
FetchPool ==
    { Candidate(U(1), "s1"),
      Candidate(UNew, "s2"),
      Article(UNew, "s3", "qX", <<"t5">>),
      Candidate(UFtp, "s1"),
      Candidate(UEmpty, "s1"),
      Candidate(U(2), "Error: timeout"),
      Article(UNew, "", "", <<>>) }

\* get_data_revised.py:249: mode = "query" if query else "urls"
Mode(query) == IF query # "" THEN "query" ELSE "urls"

\* get_data_revised.py:109-119: the cases in which fetch_data raises
\* ValueError; a url_list of None or [] is written <<>>
ContractViolation(mode, query, url_list) ==
    \/ mode = "query" /\ query = ""
    \/ mode = "urls" /\ url_list = <<>>
    \/ mode \notin {"query", "urls"}

\* whether the get_data_and_summarize call of supplement_data raises:
\* the contract violation of an empty query, or any other failure (raised)
FetcherRaises(query, raised) ==
    ContractViolation(Mode(query), query, <<>>) \/ raised

\* faulty variant: a failed Fetcher is answered with a stock candidate
supplement_dataFallback(query, fetcherResult, raised) ==
    IF FetcherRaises(query, raised)
    THEN <<[url |-> UNew, summary |-> "s2", query |-> "", tags |-> <<>>,
            keys |-> {"url", "summary"}]>>
    ELSE fetcherResult

\* report_generator.py:23-28; get_data_revised.py:249-250, 114-116: an empty
\* query selects mode "urls" with no url_list, fetch_data raises ValueError
\* and supplement_data returns []; raised is any other failure of the Fetcher
supplement_data(query, fetcherResult, raised) ==
    IF FetcherRaises(query, raised)
    THEN <<>>
    ELSE fetcherResult

(***************************************************************************)
(* generate_report_for_query                                               *)
(***************************************************************************)
Threshold(version) ==
    IF version = "core" THEN MIN_ARTICLE_THRESHOLD ELSE MIN_ARTICLE_THRESHOLD_PHASE1

\* faulty variant: <= in place of <
NeedsSupplementLax(version, n) == n <= Threshold(version)

\* Core_Workflow/report_generator.py:101, Phase1/report_generator.py:106
NeedsSupplement(version, n) == n < Threshold(version)

\* article.get("url", "")
GetUrl(article) == IF "url" \in article.keys THEN article.url ELSE UEmpty

\* faulty variant: no test against existing_urls
KeepCandidateNoDedup(version, article, existing_urls) ==
    version = "core" => startswith(GetUrl(article), HttpPrefix)

\* faulty variant: a candidate carrying an error marker is dropped
KeepCandidateNoErrors(version, article, existing_urls) ==
    /\ article.summary # "Error: timeout"
    /\ version = "core" => startswith(GetUrl(article), HttpPrefix)
    /\ article.url \notin existing_urls

\* Core_Workflow/report_generator.py:109; Phase1/report_generator.py:111
KeepCandidate(version, article, existing_urls) ==
    IF version = "core"
    THEN startswith(GetUrl(article), HttpPrefix) /\ article.url \notin existing_urls
    ELSE article.url \notin existing_urls

\* the filter of the candidates raises: in Core_Workflow
\* article.get("url", "") of a null url is None, which has no startswith
\* (report_generator.py:109); in Phase1 article["url"] of a candidate
\* without the key is a KeyError (report_generator.py:111)
FilterRaises(version, fetched) ==
    \E i \in 1..Len(fetched) :
        IF version = "core"
        THEN "url" \in fetched[i].keys /\ fetched[i].url = UNone
        ELSE "url" \notin fetched[i].keys

\* not article.get("query")
LacksQuery(article) == "query" \notin article.keys \/ article.query = ""

\* not article.get("tags")
LacksTags(article) == "tags" \notin article.keys \/ article.tags = <<>>

\* faulty variant: query and tags are always set from the run
WithDefaultsOverwrite(article, query, tags) ==
    [article EXCEPT !.query = query, !.tags = tags,
                    !.keys = @ \cup {"query", "tags"}]

\* Core_Workflow/report_generator.py:113-117; Phase1/report_generator.py:114-118
WithDefaults(article, query, tags) ==
    [article EXCEPT !.query = IF LacksQuery(article) THEN query ELSE @,
                    !.tags = IF LacksTags(article) THEN tags ELSE @,
                    !.keys = @ \cup {"query", "tags"}]

\* Core_Workflow/report_generator.py:105-117
Survivors(version, fetched, articles_from_db, query, tags) ==
    LET existing_urls == {articles_from_db[i].url : i \in 1..Len(articles_from_db)}
        keep == [i \in 1..Len(fetched) |->
                    KeepCandidate(version, fetched[i], existing_urls)]
        kept == SelectIdx(fetched, keep, 1)
    IN [i \in 1..Len(kept) |-> WithDefaults(kept[i], query, tags)]

\* faulty variant: fetched articles before cached ones
MergeNewFirst(articles_from_db, supplementary_articles) ==
    supplementary_articles \o articles_from_db

\* Core_Workflow/report_generator.py:124
Merge(articles_from_db, supplementary_articles) ==
    articles_from_db \o supplementary_articles

\* what append_articles reads of an article: utilities.py:141-144
AsTuple(article) ==
    [url |-> article.url, summary |-> article.summary, query |-> article.query,
     tags |-> article.tags, keys |-> FullKeys]

\* faulty variant: the blocks are numbered by their own position
collate_article_summariesRenumber(articles) ==
    LET keep == [i \in 1..Len(articles) |->
                    "summary" \in articles[i].keys /\ articles[i].summary # ""]
        idx == SelectIdx([i \in 1..Len(articles) |-> i], keep, 1)
    IN [j \in 1..Len(idx) |->
          [n |-> j, url |-> articles[idx[j]].url,
           summary |-> articles[idx[j]].summary]]

\* Core_Workflow/report_generator.py:35-41: one block per article with a
\* non-empty summary, numbered by its position in the list
collate_article_summaries(articles) ==
    LET keep == [i \in 1..Len(articles) |->
                    "summary" \in articles[i].keys /\ articles[i].summary # ""]
        idx == SelectIdx([i \in 1..Len(articles) |-> i], keep, 1)
    IN [j \in 1..Len(idx) |->
          [n |-> idx[j], url |-> articles[idx[j]].url,
           summary |-> articles[idx[j]].summary]]

NoArticles == "No relevant articles found to generate a report."

ErrorReport == "Error generating report."

\* the text the chat completion answers with, blanks around it
GeneratedTexts == {" report "}

\* str.strip() on the texts of GeneratedTexts
strip(text) == IF text = " report " THEN "report" ELSE text

\* Core_Workflow/report_generator.py:44-57: the f-string around context and query
base_prompt(context, query) ==
    <<"You are an expert data analyst. Based on the following information",
      context, "Generate a comprehensive and deeply researched report", query,
      "Your report should: 1. 2. 3. 4. Ensure that">>

\* faulty variant: the extra instructions take the place of the base block
BuildPromptReplace(context, query, extra_instructions) ==
    IF extra_instructions # ""
    THEN <<extra_instructions>>
    ELSE base_prompt(context, query)

\* Core_Workflow/report_generator.py:59
BuildPrompt(context, query, extra_instructions) ==
    IF extra_instructions # ""
    THEN base_prompt(context, query) \o <<"\n", extra_instructions>>
    ELSE base_prompt(context, query)

\* faulty variant: a failed call hands back what was generated
generate_analysis_reportNoSentinel(text, failed) == strip(text)

\* Core_Workflow/report_generator.py:61-77
generate_analysis_report(text, failed) ==
    IF failed THEN ErrorReport ELSE strip(text)

\* faulty variant: a single article counts as none
NoRelevantArticlesOne(articles) == Len(articles) <= 1

\* Core_Workflow/report_generator.py:128: not articles
NoRelevantArticles(articles) == articles = <<>>

\* the extra_instructions a caller passes; Phase1 has no such parameter
ExtraInstructions(version) ==
    IF version = "core" THEN {"", "Use bullet points."} ELSE {""}

Set(p, r) == run' = [run EXCEPT ![p] = r]

\* entry of generate_report_for_query
BeginWith(p, versions, queries) ==
    \E version \in versions, query \in queries :
        /\ run[p].pc = "idle"
        /\ Set(p, [IdleRun EXCEPT !.pc = "start", !.version = version,
                                  !.query = query, !.store0 = store])
        /\ UNCHANGED <<store, clock, last>>
        /\ UNCHANGED others

Begin(p) == BeginWith(p, {"core", "phase1"}, Queries)

\* step 1, report_generator.py:93
\* raised: loading the keyword model or extracting raises, and nothing
\* around the call catches it
ExtractTags(p) ==
    \E raised \in BOOLEAN :
        /\ run[p].pc = "start"
        /\ IF raised
           THEN Set(p, [run[p] EXCEPT !.pc = "raised",
                                     !.calls = Append(@, "extract_tags")])
           ELSE Set(p, [run[p] EXCEPT !.pc = "tagged",
                                     !.tags = extract_tags(run[p].query, DEFAULT_TOP_N),
                                     !.calls = Append(@, "extract_tags")])
        /\ UNCHANGED <<store, clock, last>>
        /\ UNCHANGED others

\* faulty variant: a failed lookup is made again
LookupRetry(p) ==
    \E order \in ScanOrders, ok \in BOOLEAN :
        LET r == run[p]
            found == query_database_by_tags(store, r.tags, DEFAULT_MIN_MATCHES, order, ok)
            r1 == [r EXCEPT !.articles_from_db = found,
                            !.calls = Append(@, "query_database_by_tags")]
        IN /\ r.pc = "tagged"
           /\ last' = [op |-> "query", batch |-> <<>>, tags |-> r.tags,
                       k |-> DEFAULT_MIN_MATCHES, pre |-> store,
                       ok |-> QueryCompletes(store, r.tags, order, ok),
                       now |-> clock, result |-> found]
           /\ IF ~ok
              THEN Set(p, r1)
              ELSE IF NeedsSupplement(r.version, Len(found))
                   THEN Set(p, [r1 EXCEPT !.pc = "supplementing"])
                   ELSE Set(p, [r1 EXCEPT !.pc = "merged", !.articles = found])
           /\ UNCHANGED <<store, clock>>
           /\ UNCHANGED others

\* step 2 and the test of step 3, report_generator.py:97-101, 125-126
Lookup(p) ==
    \E order \in ScanOrders, ok \in BOOLEAN :
        LET r == run[p]
            found == query_database_by_tags(store, r.tags, DEFAULT_MIN_MATCHES, order, ok)
            r1 == [r EXCEPT !.articles_from_db = found,
                            !.calls = Append(@, "query_database_by_tags")]
        IN /\ r.pc = "tagged"
           /\ last' = [op |-> "query", batch |-> <<>>, tags |-> r.tags,
                       k |-> DEFAULT_MIN_MATCHES, pre |-> store,
                       ok |-> QueryCompletes(store, r.tags, order, ok),
                       now |-> clock, result |-> found]
           /\ IF NeedsSupplement(r.version, Len(found))
              THEN Set(p, [r1 EXCEPT !.pc = "supplementing"])
              ELSE Set(p, [r1 EXCEPT !.pc = "merged", !.articles = found])
           /\ UNCHANGED <<store, clock>>
           /\ UNCHANGED others

\* report_generator.py:103-117, and 124 when nothing survives
FetchFrom(p, pool) ==
    \E fetcherResult \in SeqsUpTo(pool, MaxFetch), raised \in BOOLEAN :
        LET r == run[p]
            got == supplement_data(r.query, fetcherResult, raised)
            surv == Survivors(r.version, got, r.articles_from_db, r.query, r.tags)
            r0 == [r EXCEPT !.fetched = got,
                            !.fetcher = IF FetcherRaises(r.query, raised)
                                        THEN "raised" ELSE "returned",
                            !.calls = Append(@, "supplement_data")]
            r1 == [r0 EXCEPT !.supplementary_articles = surv]
        IN /\ r.pc = "supplementing"
           /\ raised => fetcherResult = <<>>
           /\ IF FilterRaises(r.version, got)
              THEN Set(p, [r0 EXCEPT !.pc = "raised"])
              ELSE IF surv # <<>>
                   THEN Set(p, [r1 EXCEPT !.pc = "persist"])
                   ELSE Set(p, [r1 EXCEPT !.pc = "merged",
                                          !.articles = Merge(r.articles_from_db, surv)])
           /\ UNCHANGED <<store, clock, last>>
           /\ UNCHANGED others

\* the Fetcher answers with well-formed candidates
Fetch(p) == FetchFrom(p, FetchPool)

\* report_generator.py:120-124
\* variant: the run keeps only the candidates its own append inserted
PersistWithinOnlyInserted(p, writes) ==
    \E ok \in BOOLEAN :
        LET r == run[p]
            batch == [i \in 1..Len(r.supplementary_articles) |->
                        AsTuple(r.supplementary_articles[i])]
        IN /\ r.pc = "persist"
           /\ clock < writes
           /\ clock' = clock + 1
           /\ store' = append_articles(store, batch, clock', ok)
           /\ last' = [op |-> "append", batch |-> batch, tags |-> <<>>, k |-> 0,
                       pre |-> store, ok |-> AppendCommits(batch, ok),
                       now |-> clock', result |-> <<>>]
           /\ Set(p, [r EXCEPT !.pc = "merged",
                        !.articles = Merge(r.articles_from_db,
                                SelectIdx(r.supplementary_articles,
                                    [i \in 1..Len(r.supplementary_articles) |->
                                        GetUrl(r.supplementary_articles[i])
                                            \notin DOMAIN store], 1)),
                        !.calls = Append(@, "append_articles")])
           /\ UNCHANGED others

PersistWithin(p, writes) ==
    \E ok \in BOOLEAN :
        LET r == run[p]
            batch == [i \in 1..Len(r.supplementary_articles) |->
                        AsTuple(r.supplementary_articles[i])]
        IN /\ r.pc = "persist"
           /\ clock < writes
           /\ clock' = clock + 1
           /\ store' = append_articles(store, batch, clock', ok)
           /\ last' = [op |-> "append", batch |-> batch, tags |-> <<>>, k |-> 0,
                       pre |-> store, ok |-> AppendCommits(batch, ok),
                       now |-> clock', result |-> <<>>]
           /\ Set(p, [r EXCEPT !.pc = "merged",
                        !.articles = Merge(r.articles_from_db, r.supplementary_articles),
                        !.calls = Append(@, "append_articles")])
           /\ UNCHANGED others

Persist(p) == PersistWithin(p, MaxClock)

\* report_generator.py:128-136
Narrate(p) ==
    \E text \in GeneratedTexts \cup {""}, failed \in BOOLEAN,
       extra_instructions \in ExtraInstructions(run[p].version) :
        LET r == run[p]
            context == collate_article_summaries(r.articles)
        IN /\ r.pc = "merged"
           /\ failed <=> text = ""
           /\ IF NoRelevantArticles(r.articles)
              THEN /\ failed
                   /\ extra_instructions = ""
                   /\ Set(p, [r EXCEPT !.pc = "done", !.result = NoArticles])
              ELSE Set(p, [r EXCEPT !.pc = "done",
                             !.context = context,
                             !.extra_instructions = extra_instructions,
                             !.prompt = BuildPrompt(context, r.query, extra_instructions),
                             !.generated = text,
                             !.narration = IF failed THEN "failed" ELSE "ok",
                             !.result = generate_analysis_report(text, failed),
                             !.calls = @ \o <<"collate_article_summaries",
                                              "generate_analysis_report">>])
           /\ UNCHANGED <<store, clock, last>>
           /\ UNCHANGED others

Init ==
    /\ store \in {SeedStore(n) : n \in 0..MaxSeedRows}
    /\ clock = 0
    /\ last = NoOp
    /\ run = [p \in Procs |-> IdleRun]
    /\ InitOthers

\* one orchestrator invocation, run by process 1
Next ==
    \/ Begin(1)
    \/ ExtractTags(1)
    \/ Lookup(1)
    \/ Fetch(1)
    \/ Persist(1)
    \/ Narrate(1)

Spec == Init /\ [][Next]_vars

(***************************************************************************)
(* generate_report_for_query with a Fetcher whose candidates may lack the  *)
(* url key or carry a null url.                                            *)
(***************************************************************************)
\* {"summary": ...}: process_data_for_summarization always sets the key, a
\* replaced Fetcher need not
CandidateNoUrl(s) ==
    [url |-> UEmpty, summary |-> s, query |-> "", tags |-> <<>>, keys |-> {"summary"}]

\* {"url": ...}: article.get("summary") is None, written "" in the tuple
\* handed to the INSERT
CandidateNoSummary(u) ==
    [url |-> u, summary |-> "", query |-> "", tags |-> <<>>, keys |-> {"url"}]

FaultPool ==
    { Candidate(UNew, "s2"),
      Candidate(U(1), "s1"),
      Candidate(UNone, "s1"),
      CandidateNoUrl("s1"),
      CandidateNoSummary(U(2)),
      Candidate(U(MaxSeedRows), "") }

FetchMalformed(p) == FetchFrom(p, FaultPool)

InitFaults ==
    /\ store \in {SeedStore(n) : n \in 0..MaxStoreSeed}
    /\ clock = 0
    /\ last = NoOp
    /\ run = [p \in Procs |-> IdleRun]
    /\ InitOthers

NextFaults ==
    \/ Begin(1)
    \/ ExtractTags(1)
    \/ Lookup(1)
    \/ FetchMalformed(1)
    \/ Persist(1)
    \/ Narrate(1)

SpecFaults == InitFaults /\ [][NextFaults]_vars

(***************************************************************************)
(* generate_report_for_query on a table that may hold a row whose tags are *)
(* NULL.                                                                   *)
(***************************************************************************)
\* the row of U(1) with its tags column set to NULL
WithNullTags(st) ==
    [u \in DOMAIN st |-> IF u = U(1) THEN [st[u] EXCEPT !.tags = NullTags] ELSE st[u]]

InitNullTags ==
    /\ store \in {SeedStore(n) : n \in 0..MaxStoreSeed}
                   \cup {WithNullTags(SeedStore(n)) : n \in 1..MaxStoreSeed}
    /\ clock = 0
    /\ last = NoOp
    /\ run = [p \in Procs |-> IdleRun]
    /\ InitOthers

SpecNullTags == InitNullTags /\ [][Next]_vars

(***************************************************************************)
(* generate_report_for_query called again and again on the same store.     *)
(***************************************************************************)
\* the candidates the Fetcher finds for every query
RepeatPool == {Candidate(UNew, "s2"), Candidate(U(1), "s1")}

FetchRepeat(p) == FetchFrom(p, RepeatPool)

\* generate_report_for_query has returned or raised; the caller may call again
Return(p) ==
    /\ run[p].pc \in {"done", "raised"}
    /\ Set(p, IdleRun)
    /\ UNCHANGED <<store, clock, last>>
    /\ UNCHANGED others

InitRepeat ==
    /\ store \in {SeedStore(0), SeedStore(MaxStoreSeed)}
    /\ clock = 0
    /\ last = NoOp
    /\ run = [p \in Procs |-> IdleRun]
    /\ InitOthers

NextRepeat ==
    \/ Begin(1)
    \/ ExtractTags(1)
    \/ Lookup(1)
    \/ FetchRepeat(1)
    \/ Persist(1)
    \/ Narrate(1)
    \/ Return(1)

SpecRepeat == InitRepeat /\ [][NextRepeat]_vars

(***************************************************************************)
(* Two generate_report_for_query runs and direct writers on one store.     *)
(* Every database call is one transaction, so it is one step.              *)
(***************************************************************************)
\* both runs' Fetchers find the same new URL, each with a summary of its own
ConcPool(p) == {Candidate(UNew, IF p = 1 THEN "s1" ELSE "s2")}

\* the batches other writers send while the runs are under way
ConcBatches ==
    { <<Article(UNew, "s3", "qB", <<"t1">>)>>,
      <<Article(U(1), "s3", "qB", <<>>)>> }

\* writes the store takes in one behaviour
ConcWrites == MaxClock + 1

BeginConcurrent(p) == BeginWith(p, {"core"}, {"qA"})

FetchConcurrent(p) == FetchFrom(p, ConcPool(p))

PersistConcurrent(p) == PersistWithin(p, ConcWrites)

AppendConcurrent == AppendFrom(ConcBatches, ConcWrites)

StoreConcurrent == StoreFrom(ConcBatches, ConcWrites)

InitConcurrent ==
    /\ store = SeedStore(0)
    /\ clock = 0
    /\ last = NoOp
    /\ run = [p \in Procs |-> IdleRun]
    /\ InitOthers

NextConcurrent ==
    \/ \E p \in Procs : BeginConcurrent(p)
    \/ \E p \in Procs : ExtractTags(p)
    \/ \E p \in Procs : Lookup(p)
    \/ \E p \in Procs : FetchConcurrent(p)
    \/ \E p \in Procs : PersistConcurrent(p)
    \/ \E p \in Procs : Narrate(p)
    \/ AppendConcurrent
    \/ StoreConcurrent

SpecConcurrent == InitConcurrent /\ [][NextConcurrent]_vars

(***************************************************************************)
(* Core_Workflow/agent_langchain.py: run_agent and generate_report_tool.   *)
(* A report is written as the query it was generated for and the           *)
(* invocation whose call generated it.                                     *)
(***************************************************************************)
AgentQueries == {"q1", "q2"}

Report(query, id) == [query |-> query, invocation |-> id]

\* invocations are numbered in the order they start
NextId ==
    LET ids == {invocation[p].id : p \in Procs}
    IN 1 + CHOOSE n \in ids : \A m \in ids : m <= n

SetInvocation(p, v) == invocation' = [invocation EXCEPT ![p] = v]

\* agent_langchain.py:104-128: run_agent(query) starts; nothing resets
\* last_tool_output
RunAgent(p) ==
    \E query \in AgentQueries :
        /\ invocation[p].pc \in {"idle", "done", "raised"}
        /\ NextId <= MaxInvocations
        /\ SetInvocation(p, [IdleInvocation EXCEPT !.pc = "agent", !.id = NextId,
                                                  !.query = query])
        /\ UNCHANGED <<last_tool_output, report_queue, thread, script,
                       search_api, time, requests>>
        /\ UNCHANGED pipeline

\* agent_langchain.py:66-83: inside agent.run the agent calls
\* generate_report_tool, handing on the query it was given; the tool stores
\* its report in the global, or generate_report_for_query raises and nothing
\* is stored
AgentCallsTool(p) ==
    \E raised \in BOOLEAN :
        LET v == invocation[p]
            tool_input == v.query
        IN /\ v.pc = "agent"
           /\ v.tool_calls < MaxToolCalls
           /\ IF raised
              THEN /\ SetInvocation(p, [v EXCEPT !.pc = "raised"])
                   /\ UNCHANGED last_tool_output
              ELSE /\ SetInvocation(p, [v EXCEPT !.tool_calls = @ + 1])
                   /\ last_tool_output' = Report(tool_input, v.id)
           /\ UNCHANGED <<report_queue, thread, script, search_api, time, requests>>
           /\ UNCHANGED pipeline

\* agent_langchain.py:130: agent.run returns the final answer, or raises
AgentReturns(p) ==
    \E raised \in BOOLEAN :
        LET v == invocation[p]
        IN /\ v.pc = "agent"
           /\ SetInvocation(p, IF raised
                                THEN [v EXCEPT !.pc = "raised"]
                                ELSE [v EXCEPT !.pc = "combine",
                                               !.final_answer = "answer"])
           /\ UNCHANGED <<last_tool_output, report_queue, thread, script,
                          search_api, time, requests>>
           /\ UNCHANGED pipeline

\* agent_langchain.py:133-138: the global if it is set, a fresh
\* generate_report_tool(query) call otherwise
Combine(p) ==
    \E raised \in BOOLEAN :
        LET v == invocation[p]
        IN /\ v.pc = "combine"
           /\ IF last_tool_output # NoneReport
              THEN /\ ~raised
                   /\ SetInvocation(p, [v EXCEPT !.pc = "done",
                                                  !.detailed_report = last_tool_output])
                   /\ UNCHANGED last_tool_output
              ELSE IF raised
                   THEN /\ SetInvocation(p, [v EXCEPT !.pc = "raised"])
                        /\ UNCHANGED last_tool_output
                   ELSE /\ last_tool_output' = Report(v.query, v.id)
                        /\ SetInvocation(p, [v EXCEPT !.pc = "done",
                                                !.detailed_report = last_tool_output'])
           /\ UNCHANGED <<report_queue, thread, script, search_api, time, requests>>
           /\ UNCHANGED pipeline

InitAgent ==
    /\ store = SeedStore(0)
    /\ clock = 0
    /\ last = NoOp
    /\ run = [p \in Procs |-> IdleRun]
    /\ InitOthers

NextAgent ==
    \/ \E p \in Procs : RunAgent(p)
    \/ \E p \in Procs : AgentCallsTool(p)
    \/ \E p \in Procs : AgentReturns(p)
    \/ \E p \in Procs : Combine(p)

SpecAgent == InitAgent /\ [][NextAgent]_vars

(***************************************************************************)
(* dashboard/app.py: the script, its worker thread and report_queue.       *)
(***************************************************************************)
\* app.py:43-63: a query is submitted; the script makes the queue and starts
\* the worker
Submit ==
    \E query \in AgentQueries :
        /\ script.pc = "idle"
        /\ report_queue' = <<>>
        /\ thread' = [IdleThread EXCEPT !.pc = "running"]
        /\ script' = [IdleScript EXCEPT !.pc = "polling", !.query = query]
        /\ UNCHANGED <<last_tool_output, invocation, search_api, time, requests>>
        /\ UNCHANGED pipeline

\* run_agent, under way in the worker, writes a log line
WorkerLogs ==
    /\ thread.pc = "running"
    /\ thread.logs < MaxLogs
    /\ thread' = [thread EXCEPT !.logs = @ + 1]
    /\ UNCHANGED <<report_queue, script>>
    /\ UNCHANGED <<last_tool_output, invocation, search_api, time, requests>>
    /\ UNCHANGED pipeline

\* variant: an exception of run_agent leaves the worker without a message
WorkerFinishesSilentError ==
    \E raised \in BOOLEAN :
        /\ thread.pc = "running"
        /\ thread' = [thread EXCEPT !.pc = "put",
                         !.outcome = IF raised THEN "raised" ELSE "returned"]
        /\ report_queue' = IF raised
                           THEN report_queue
                           ELSE Append(report_queue, Message("success", script.query))
        /\ UNCHANGED script
        /\ UNCHANGED <<last_tool_output, invocation, search_api, time, requests>>
        /\ UNCHANGED pipeline

\* app.py:54-59: run_agent returns or raises an Exception and the worker
\* puts its message
WorkerFinishes ==
    \E raised \in BOOLEAN :
        /\ thread.pc = "running"
        /\ thread' = [thread EXCEPT !.pc = "put",
                         !.outcome = IF raised THEN "raised" ELSE "returned"]
        /\ report_queue' = IF raised
                           THEN Append(report_queue, Message("error", "message"))
                           ELSE Append(report_queue, Message("success", script.query))
        /\ UNCHANGED script
        /\ UNCHANGED <<last_tool_output, invocation, search_api, time, requests>>
        /\ UNCHANGED pipeline

\* generate_report returns and the thread is no longer alive
WorkerEnds ==
    /\ thread.pc = "put"
    /\ thread' = [thread EXCEPT !.pc = "ended"]
    /\ UNCHANGED <<report_queue, script>>
    /\ UNCHANGED <<last_tool_output, invocation, search_api, time, requests>>
    /\ UNCHANGED pipeline

\* app.py:67-73: thread.is_alive() holds; the script shows the logs and sleeps
Poll ==
    /\ script.pc = "polling"
    /\ thread.pc # "ended"
    /\ script' = [script EXCEPT !.shown = thread.logs]
    /\ UNCHANGED <<report_queue, thread>>
    /\ UNCHANGED <<last_tool_output, invocation, search_api, time, requests>>
    /\ UNCHANGED pipeline

\* app.py:67, 76: thread.is_alive() fails, the loop ends and thread.join()
\* returns
Join ==
    /\ script.pc = "polling"
    /\ thread.pc = "ended"
    /\ script' = [script EXCEPT !.pc = "get"]
    /\ UNCHANGED <<report_queue, thread>>
    /\ UNCHANGED <<last_tool_output, invocation, search_api, time, requests>>
    /\ UNCHANGED pipeline

\* app.py:79-88: report_queue.get() waits for a message, takes it, and the
\* script shows the report or the error
Get ==
    /\ script.pc = "get"
    /\ report_queue # <<>>
    /\ script' = [script EXCEPT !.pc = "shown", !.result = Head(report_queue)]
    /\ report_queue' = Tail(report_queue)
    /\ UNCHANGED thread
    /\ UNCHANGED <<last_tool_output, invocation, search_api, time, requests>>
    /\ UNCHANGED pipeline

InitDashboard ==
    /\ store = SeedStore(0)
    /\ clock = 0
    /\ last = NoOp
    /\ run = [p \in Procs |-> IdleRun]
    /\ InitOthers

NextDashboard ==
    \/ Submit
    \/ WorkerLogs
    \/ WorkerFinishes
    \/ WorkerEnds
    \/ Poll
    \/ Join
    \/ Get

\* the script's own thread keeps running: a loop exit or a get that stays
\* possible is taken
SpecDashboard ==
    /\ InitDashboard
    /\ [][NextDashboard]_vars
    /\ WF_vars(Join)
    /\ WF_vars(Get)

(***************************************************************************)
(* twitter_scrape/search_api.py: GoogleSearchAPI.search_tweets.            *)
(***************************************************************************)
\* search_api.py:25-27: seconds the call sleeps before its request
RateLimitSleep(now, last_query_time) ==
    LET time_since_last == now - last_query_time
    IN IF time_since_last < REQUEST_DELAY
       THEN REQUEST_DELAY - time_since_last
       ELSE 0

\* search_api.py:18-51: one call; the request is issued when the sleep is
\* over and a failed request returns []; no line assigns last_query_time
search_tweets ==
    \E failed \in BOOLEAN :
        LET slept == RateLimitSleep(time, search_api.last_query_time)
        IN /\ Len(requests) < MaxRequests
           /\ time' = time + slept
           /\ requests' = Append(requests, [at |-> time', slept |-> slept,
                                            failed |-> failed])
           /\ UNCHANGED search_api
           /\ UNCHANGED <<last_tool_output, invocation, report_queue, thread, script>>
           /\ UNCHANGED pipeline

\* a second passes between two calls
Tick ==
    /\ time < StartTime + MaxElapsed
    /\ time' = time + 1
    /\ UNCHANGED <<search_api, requests>>
    /\ UNCHANGED <<last_tool_output, invocation, report_queue, thread, script>>
    /\ UNCHANGED pipeline

InitSearch ==
    /\ store = SeedStore(0)
    /\ clock = 0
    /\ last = NoOp
    /\ run = [p \in Procs |-> IdleRun]
    /\ InitOthers

NextSearch ==
    \/ search_tweets
    \/ Tick

SpecSearch == InitSearch /\ [][NextSearch]_vars

(***************************************************************************)
(* The Fetcher and the Summarizer: fetch_data, safe_summarize,             *)
(* process_data_for_summarization, get_data_and_summarize.                 *)
(***************************************************************************)
Returns(v) == [raised |-> FALSE, value |-> v]

Raises(e) == [raised |-> TRUE, value |-> e]

\* what get_clean_content does for one URL: it raises, it returns a page
\* whose text begins with "Error:", a text of fewer than 50 characters, or
\* a longer text
FetchOutcomes == {"fail", "errortext", "short", "long"}

\* what one call of the summarizer pipeline does: it returns, it raises a
\* RuntimeError naming CUDA, another RuntimeError, or another exception
AttemptOutcomes == {"ok", "cuda", "runtime", "other"}

\* the behaviour of the network and of the summarizer for one URL; the
\* attempts after the one that ends safe_summarize are never made and are
\* written "ok"
Behaviours ==
    {b \in [fetch : FetchOutcomes, attempts : [1..MAX_RETRIES -> AttemptOutcomes]] :
        \A i \in 1..MAX_RETRIES :
            (b.fetch # "long" \/ \E j \in 1..(i - 1) : b.attempts[j] # "cuda")
                => b.attempts[i] = "ok"}

\* the URLs a caller or the search hands over
FetchUrls == {U(1), UNew}

\* get_urls: the search raises or returns a list of URLs
SearchOutcomes ==
    {Raises(<<"search failed">>)}
        \cup {Returns(l) : l \in SeqsUpTo(FetchUrls, MaxFetch)}

\* get_data_revised.py:79-96
get_clean_content(fetch) ==
    CASE fetch = "fail" -> Raises(<<"API Error: 500">>)
      [] fetch = "errortext" -> Returns(<<"Error:", " page not found">>)
      [] fetch = "short" -> Returns(<<"short text">>)
      [] OTHER -> Returns(<<"long text">>)

\* get_data_revised.py:121-127: one entry per URL, an exception becomes the
\* raw_content f"Error: {str(e)}"
FetchEntry(url, fetch) ==
    LET content == get_clean_content(fetch)
    IN [url |-> url,
        raw_content |-> IF content.raised THEN <<"Error:", " ">> \o content.value
                        ELSE content.value]

\* get_data_revised.py:98-128; search is what get_urls does, world[i] what
\* happens for the i-th URL
fetch_data(mode, query, url_list, search, world) ==
    IF ContractViolation(mode, query, url_list)
    THEN Raises(<<"ValueError">>)
    ELSE IF mode = "query" /\ search.raised
    THEN search
    ELSE LET urls == IF mode = "query" THEN search.value ELSE url_list
         IN Returns([i \in 1..Len(urls) |-> FetchEntry(urls[i], world[i].fetch)])

\* an outcome of safe_summarize reached in its n-th pass through the loop
After(n, outcome) ==
    [raised |-> outcome.raised, value |-> outcome.value, attempts |-> n]

RECURSIVE SafeSummarizeFromAnyRuntime(_, _, _)
\* faulty variant: every RuntimeError is retried while attempts remain
SafeSummarizeFromAnyRuntime(content, attempts, attempt) ==
    IF attempt > MAX_RETRIES
    THEN After(MAX_RETRIES, Returns(<<"Summary error: Maximum retries exceeded">>))
    ELSE IF content = <<"short text">>
    THEN After(attempt, Returns(content))
    ELSE CASE attempts[attempt] = "ok" ->
                 After(attempt, Returns(<<"summary of">> \o content))
           [] attempts[attempt] \in {"cuda", "runtime"} ->
                 IF attempt < MAX_RETRIES
                 THEN SafeSummarizeFromAnyRuntime(content, attempts, attempt + 1)
                 ELSE After(attempt, Raises(<<"RuntimeError">>))
           [] OTHER -> After(attempt, Raises(<<"index out of range">>))

RECURSIVE SafeSummarizeFrom(_, _, _)
\* get_data_revised.py:175-204, the loop from its 1-based attempt on
SafeSummarizeFrom(content, attempts, attempt) ==
    IF attempt > MAX_RETRIES
    THEN After(MAX_RETRIES, Returns(<<"Summary error: Maximum retries exceeded">>))
    ELSE IF content = <<"short text">>
    THEN After(attempt, Returns(content))
    ELSE CASE attempts[attempt] = "ok" ->
                 After(attempt, Returns(<<"summary of">> \o content))
           [] attempts[attempt] = "cuda" ->
                 IF attempt < MAX_RETRIES
                 THEN SafeSummarizeFrom(content, attempts, attempt + 1)
                 ELSE After(attempt, Raises(<<"CUDA out of memory">>))
           [] attempts[attempt] = "runtime" -> After(attempt, Raises(<<"RuntimeError">>))
           [] OTHER -> After(attempt, Raises(<<"index out of range">>))

\* get_data_revised.py:170-204
safe_summarize(content, attempts) == SafeSummarizeFrom(content, attempts, 1)

\* get_data_revised.py:215-228: the result for one entry; summarized tells
\* whether safe_summarize was called, attempts how many passes it made
ProcessEntry(entry, attempts) ==
    IF startswith(entry.raw_content, <<"Error:">>)
    THEN [url |-> entry.url, raw_content |-> entry.raw_content,
          summary |-> entry.raw_content, summarized |-> FALSE, attempts |-> 0]
    ELSE LET s == safe_summarize(entry.raw_content, attempts)
         IN [url |-> entry.url, raw_content |-> entry.raw_content,
             summary |-> IF s.raised
                         THEN <<"Summarization failed:", " ">> \o s.value
                         ELSE s.value,
             summarized |-> TRUE, attempts |-> s.attempts]

\* faulty variant: the loop ends at the first entry whose summarization fails
process_data_for_summarizationAbort(data, world) ==
    LET all == [i \in 1..Len(data) |-> ProcessEntry(data[i], world[i].attempts)]
        failed == {i \in 1..Len(all) :
                      startswith(all[i].summary, <<"Summarization failed:">>)}
    IN IF failed = {} THEN all
       ELSE SubSeq(all, 1, (CHOOSE i \in failed : \A j \in failed : i <= j) - 1)

\* get_data_revised.py:206-229
process_data_for_summarization(data, world) ==
    [i \in 1..Len(data) |-> ProcessEntry(data[i], world[i].attempts)]

\* get_data_revised.py:235-268 with output_file None; modelOk is whether
\* initialize_model returns
get_data_and_summarize(query, url_list, search, world, modelOk) ==
    LET data == fetch_data(Mode(query), query, url_list, search, world)
    IN IF data.raised THEN data
       ELSE IF ~modelOk THEN Raises(<<"model initialization failed">>)
       ELSE Returns(process_data_for_summarization(data.value, world))

\* the worlds for a list of n URLs
Worlds(n) == [1..n -> Behaviours]

\* the URLs fetch_data goes through
UrlsOf(mode, url_list, search) ==
    IF mode = "query" THEN search.value ELSE url_list

\* the inputs of one call: an input the mode does not read has one value
CallInputs ==
    {c \in [mode : {"query", "urls", "file"}, query : {"", "qA"},
            url_list : SeqsUpTo(FetchUrls, MaxFetch), search : SearchOutcomes] :
        /\ c.mode # "query" => c.search = Returns(<<>>)
        /\ c.mode = "query" => c.url_list = <<>>}

\* a call of fetch_data, made once from the initial state as the calls
\* below are: the functions keep no state between calls
FetchDataCall ==
    /\ last = NoOp
    /\ \E c \in CallInputs :
          \E world \in Worlds(Len(UrlsOf(c.mode, c.url_list, c.search))) :
              LET r == fetch_data(c.mode, c.query, c.url_list, c.search, world)
              IN /\ \A i \in DOMAIN world :
                       world[i].attempts = [j \in 1..MAX_RETRIES |-> "ok"]
                 /\ last' = [op |-> "fetch_data", mode |-> c.mode, query |-> c.query,
                             url_list |-> c.url_list, search |-> c.search,
                             world |-> world, raised |-> r.raised, result |-> r.value]
    /\ UNCHANGED <<store, clock, run>>
    /\ UNCHANGED others

\* a call of get_data_and_summarize
GetDataAndSummarizeCall ==
    /\ last = NoOp
    /\ \E c \in CallInputs, modelOk \in BOOLEAN :
          /\ c.mode = Mode(c.query)
          /\ \E world \in Worlds(Len(UrlsOf(c.mode, c.url_list, c.search))) :
                LET r == get_data_and_summarize(c.query, c.url_list, c.search, world,
                                                modelOk)
                IN last' = [op |-> "get_data_and_summarize", mode |-> c.mode,
                            query |-> c.query, url_list |-> c.url_list,
                            search |-> c.search, world |-> world, modelOk |-> modelOk,
                            raised |-> r.raised, result |-> r.value]
    /\ UNCHANGED <<store, clock, run>>
    /\ UNCHANGED others

\* a call of supplement_data, which passes no url_list
SupplementDataCall ==
    /\ last = NoOp
    /\ \E c \in CallInputs, modelOk \in BOOLEAN :
          /\ c.mode = Mode(c.query)
          /\ c.url_list = <<>>
          /\ \E world \in Worlds(Len(UrlsOf(c.mode, c.url_list, c.search))) :
                LET r == get_data_and_summarize(c.query, <<>>, c.search, world, modelOk)
                IN last' = [op |-> "supplement_data", mode |-> c.mode,
                            query |-> c.query, url_list |-> c.url_list,
                            search |-> c.search, world |-> world, modelOk |-> modelOk,
                            raised |-> FALSE,
                            result |-> supplement_data(c.query, r.value, r.raised)]
    /\ UNCHANGED <<store, clock, run>>
    /\ UNCHANGED others

InitFetch ==
    /\ store = SeedStore(0)
    /\ clock = 0
    /\ last = NoOp
    /\ run = [p \in Procs |-> IdleRun]
    /\ InitOthers

NextFetch ==
    \/ FetchDataCall
    \/ GetDataAndSummarizeCall
    \/ SupplementDataCall

SpecFetch == InitFetch /\ [][NextFetch]_vars

TypeOK ==
    /\ clock \in 0..MaxClock
    /\ DOMAIN store \subseteq Range(UrlList)
    /\ last.op \in {"none", "query", "append", "store", "extract_tags", "fetch_data",
                    "get_data_and_summarize", "supplement_data"}
    /\ \A p \in Procs :
          run[p].pc \in {"idle", "start", "tagged", "supplementing", "persist",
                         "merged", "done", "raised"}

(***************************************************************************)
(* Properties.                                                             *)
(***************************************************************************)
\* number of distinct tags two tag lists share
Shared(tagsA, tagsB) ==
    Cardinality({t \in Range(tagsA) : \E j \in 1..Len(tagsB) : tagsB[j] = t})

Returned(u) == \E i \in 1..Len(last.result) : last.result[i].url = u

\* C1: every article a query_database_by_tags(tags, k) call returns is a
\* stored row that shares at least k distinct tags with the query tags.
C1_NoFalsePositives ==
    last.op = "query" =>
        \A i \in 1..Len(last.result) :
            LET a == last.result[i]
            IN /\ a.url \in DOMAIN last.pre
               /\ a.tags = last.pre[a.url].tags
               /\ Shared(a.tags, last.tags) >= last.k

\* a call with k >= 2 returned a row and rejected an overlapping one
C1_Witness ==
    /\ last.op = "query"
    /\ last.k >= 2
    /\ last.result # <<>>
    /\ \E u \in DOMAIN last.pre :
          /\ Shared(last.pre[u].tags, last.tags) \in 1..(last.k - 1)
          /\ ~Returned(u)

\* C2 as stated: for every k, k = 0 and the empty tag list included, a call
\* whose store read succeeds returns every stored article that shares at
\* least k distinct tags with the query tags.
C2_NoFalseNegativesAnyK ==
    (last.op = "query" /\ last.ok) =>
        \A u \in DOMAIN last.pre :
            Shared(last.pre[u].tags, last.tags) >= last.k => Returned(u)

\* C2 amended: for every k >= 1 a call whose store read succeeds returns
\* every stored article that shares at least k distinct tags with the query
\* tags, with the stored fields.
C2_NoFalseNegatives ==
    (last.op = "query" /\ last.ok /\ last.k >= 1) =>
        \A u \in DOMAIN last.pre :
            Shared(last.pre[u].tags, last.tags) >= last.k =>
                \E i \in 1..Len(last.result) :
                    /\ last.result[i].url = u
                    /\ last.result[i].summary = last.pre[u].summary
                    /\ last.result[i].tags = last.pre[u].tags

\* a successful call with k >= 1 for which two stored rows share exactly k
\* tags with the query, both returned
C2_Witness ==
    /\ last.op = "query"
    /\ last.ok
    /\ last.k >= 1
    /\ \E u, v \in DOMAIN last.pre :
          /\ u # v
          /\ Shared(last.pre[u].tags, last.tags) = last.k
          /\ Shared(last.pre[v].tags, last.tags) = last.k
          /\ Returned(u)
          /\ Returned(v)

\* C5: an append_articles call leaves every row that was stored before the
\* call exactly as it was, and appending the same batch once more changes
\* nothing.
C5_AppendKeepsStoredRows ==
    last.op = "append" =>
        /\ \A u \in DOMAIN last.pre : u \in DOMAIN store /\ store[u] = last.pre[u]
        /\ last.ok => append_articles(store, last.batch, last.now + 1, TRUE) = store

\* a committed append offered a stored URL with different fields and also
\* inserted a new row
C5_Witness ==
    /\ last.op = "append"
    /\ last.ok
    /\ \E i \in 1..Len(last.batch) :
          /\ last.batch[i].url \in DOMAIN last.pre
          /\ last.batch[i].summary # last.pre[last.batch[i].url].summary
          /\ last.batch[i].tags # last.pre[last.batch[i].url].tags
    /\ DOMAIN store # DOMAIN last.pre

\* C6: a store_articles call that commits replaces summary, query and tags
\* of every row whose URL it offers and that was stored before, and gives
\* the row a retrieval_timestamp strictly later than it had.
C6_StoreReplacesRow ==
    (last.op = "store" /\ last.ok) =>
        \A i \in 1..Len(last.batch) :
            LET a == last.batch[i]
            IN a.url \in DOMAIN last.pre =>
                  /\ store[a.url].summary = a.summary
                  /\ store[a.url].query = a.query
                  /\ store[a.url].tags = a.tags
                  /\ store[a.url].retrieval_timestamp >
                        last.pre[a.url].retrieval_timestamp

\* a committed store_articles offered a stored URL with changed summary and tags
C6_Witness ==
    /\ last.op = "store"
    /\ last.ok
    /\ \E i \in 1..Len(last.batch) :
          /\ last.batch[i].url \in DOMAIN last.pre
          /\ last.batch[i].summary # last.pre[last.batch[i].url].summary
          /\ last.batch[i].tags # last.pre[last.batch[i].url].tags
          /\ store[last.batch[i].url].summary = last.batch[i].summary

Supplemented(r) == "supplement_data" \in Range(r.calls)

Urls(articles) == {articles[i].url : i \in 1..Len(articles)}

\* C3: a run whose lookup returns at least the threshold of articles never
\* calls the Fetcher nor append_articles, leaves the store as it found it,
\* and hands the cached list, in its order, to collation.
C3_SufficientSkipsFetch ==
    \A p \in Procs :
        LET r == run[p]
            threshold == IF r.version = "core" THEN 7 ELSE 3
        IN (r.pc \in {"merged", "done"} /\ Len(r.articles_from_db) >= threshold) =>
              /\ "supplement_data" \notin Range(r.calls)
              /\ "append_articles" \notin Range(r.calls)
              /\ store = r.store0
              /\ Len(r.articles) = Len(r.articles_from_db)
              /\ \A i \in 1..Len(r.articles) : r.articles[i] = r.articles_from_db[i]

\* a Core_Workflow run finished with exactly MIN_ARTICLE_THRESHOLD cached articles
C3_Witness ==
    \E p \in Procs :
        /\ run[p].version = "core"
        /\ run[p].pc = "done"
        /\ Len(run[p].articles_from_db) = 7
        /\ Len(run[p].articles) = 7

Increasing(f) == \A i, j \in DOMAIN f : i < j => f[i] < f[j]

\* C4: on the supplementing path the merged list is the cached articles in
\* lookup order followed by the surviving candidates in fetch order.
C4_MergeCachedFirst ==
    \A p \in Procs :
        LET r == run[p]
            db == r.articles_from_db
            new == r.supplementary_articles
        IN (r.pc \in {"merged", "done"} /\ Supplemented(r)) =>
              /\ Len(r.articles) = Len(db) + Len(new)
              /\ \A i \in 1..Len(db) : r.articles[i] = db[i]
              /\ \A j \in 1..Len(new) : r.articles[Len(db) + j] = new[j]
              /\ \E f \in [1..Len(new) -> 1..Len(r.fetched)] :
                    /\ Increasing(f)
                    /\ \A j \in 1..Len(new) :
                          /\ new[j].url = r.fetched[f[j]].url
                          /\ new[j].summary = r.fetched[f[j]].summary

\* a merge of at least one cached article with two different survivors
C4_Witness ==
    \E p \in Procs :
        /\ run[p].pc = "merged"
        /\ Supplemented(run[p])
        /\ Len(run[p].articles_from_db) >= 1
        /\ Len(run[p].supplementary_articles) = 2
        /\ run[p].supplementary_articles[1] # run[p].supplementary_articles[2]

HasHttpScheme(u) ==
    Len(u) >= 4 /\ u[1] = "h" /\ u[2] = "t" /\ u[3] = "t" /\ u[4] = "p"

\* C7: in every version of generate_report_for_query no candidate whose URL
\* lacks the scheme marker survives the filter, is offered to
\* append_articles, or enters the merged list as a fetched article.
C7_SchemeFilterEveryVersion ==
    /\ \A p \in Procs :
          run[p].pc \in {"persist", "merged", "done"} =>
              \A i \in 1..Len(run[p].supplementary_articles) :
                  HasHttpScheme(run[p].supplementary_articles[i].url)
    /\ last.op = "append" =>
          \A i \in 1..Len(last.batch) : HasHttpScheme(last.batch[i].url)

\* C8: no surviving candidate has the URL of an article the lookup of the
\* same run returned, none is offered to append_articles, and every cached
\* article is in the merged list.
C8_NoCachedUrlSurvives ==
    \A p \in Procs :
        LET r == run[p]
        IN /\ r.pc \in {"persist", "merged", "done"} =>
                 Urls(r.supplementary_articles) \cap Urls(r.articles_from_db) = {}
           /\ (r.pc \in {"merged", "done"} /\ last.op = "append") =>
                 Urls(last.batch) \cap Urls(r.articles_from_db) = {}
           /\ r.pc \in {"merged", "done"} =>
                 \A j \in 1..Len(r.articles_from_db) :
                    \E k \in 1..Len(r.articles) : r.articles[k] = r.articles_from_db[j]

\* the Fetcher returned the URL of a cached article next to a new one
C8_Witness ==
    \E p \in Procs :
        /\ run[p].pc = "merged"
        /\ Urls(run[p].fetched) \cap Urls(run[p].articles_from_db) # {}
        /\ run[p].supplementary_articles # <<>>
        /\ last.op = "append"

\* C9: a surviving candidate gets the run's query where it has none and the
\* run's tags where it has none, keeps a value it carries, and the rows a
\* committed append_articles inserts for the survivors hold these values.
C9_DefaultsQueryAndTags ==
    \A p \in Procs :
        LET r == run[p]
            new == r.supplementary_articles
        IN r.pc \in {"persist", "merged", "done"} =>
              /\ \E f \in [1..Len(new) -> 1..Len(r.fetched)] :
                    /\ Increasing(f)
                    /\ \A j \in 1..Len(new) :
                          LET c == r.fetched[f[j]]
                              noQuery == "query" \notin c.keys \/ c.query = ""
                              noTags == "tags" \notin c.keys \/ c.tags = <<>>
                          IN /\ new[j].url = c.url
                             /\ new[j].summary = c.summary
                             /\ new[j].query = IF noQuery THEN r.query ELSE c.query
                             /\ new[j].tags = IF noTags THEN r.tags ELSE c.tags
              /\ (r.pc \in {"merged", "done"} /\ last.op = "append" /\ last.ok) =>
                    \A j \in 1..Len(new) :
                        (/\ new[j].url \notin DOMAIN last.pre
                         /\ \A i \in 1..(j - 1) : new[i].url # new[j].url) =>
                            /\ new[j].url \in DOMAIN store
                            /\ store[new[j].url].summary = new[j].summary
                            /\ store[new[j].url].query = new[j].query
                            /\ store[new[j].url].tags = new[j].tags

\* two cached articles, two new URLs without query and tags: four merged
\* articles and two inserted rows that carry the query's tags
C9_Witness ==
    \E p \in Procs :
        LET r == run[p]
        IN /\ r.pc = "merged"
           /\ last.op = "append"
           /\ last.ok
           /\ Len(r.articles_from_db) = 2
           /\ Len(r.fetched) = 2
           /\ \A i \in 1..2 : r.fetched[i].keys = {"url", "summary"}
           /\ r.fetched[1].url # r.fetched[2].url
           /\ Urls(r.fetched) \cap DOMAIN last.pre = {}
           /\ Len(r.articles) = 4
           /\ r.tags # <<>>
           /\ \A i \in 1..2 : store[r.fetched[i].url].tags = r.tags

\* C10: every article that enters the merged list or the store through the
\* supplementation path has a non-empty tag list.
C10_SupplementedTagsNonEmpty ==
    \A p \in Procs :
        LET r == run[p]
        IN r.pc \in {"persist", "merged", "done"} =>
              /\ \A j \in 1..Len(r.supplementary_articles) :
                    r.supplementary_articles[j].tags # <<>>
              /\ \A u \in DOMAIN store \ DOMAIN r.store0 : store[u].tags # <<>>

\* C11: generate_report_for_query never raises: whatever tag extraction,
\* the lookup, the Fetcher, append_articles and the Narrative Generator do
\* and whatever shape the candidates have, no run ends by raising.
C11_NeverRaises ==
    \A p \in Procs : run[p].pc # "raised"

\* C12: a run whose merged list is empty returns the no-articles message
\* and never calls generate_analysis_report; a run whose merged list is not
\* empty calls it exactly once.
C12_EmptyMergeSkipsNarration ==
    \A p \in Procs :
        LET r == run[p]
            n == Cardinality({i \in 1..Len(r.calls) :
                                r.calls[i] = "generate_analysis_report"})
        IN /\ r.pc # "done" => n = 0
           /\ (r.pc = "done" /\ r.articles = <<>>) =>
                 n = 0 /\ r.result = NoArticles /\ r.narration = "none"
           /\ (r.pc = "done" /\ r.articles # <<>>) =>
                 n = 1 /\ r.narration # "none"

\* a run that supplemented, merged nothing and returned the message
C12_Witness ==
    \E p \in Procs :
        /\ run[p].pc = "done"
        /\ Supplemented(run[p])
        /\ run[p].fetched # <<>>
        /\ run[p].articles = <<>>
        /\ run[p].result = NoArticles

\* C13: a query_database_by_tags call that fails at connecting, executing,
\* fetching or filtering returns the empty list and does not raise; the
\* run goes on to the Fetcher with no cached article and the store as it
\* was.
C13_FailedLookupIsEmpty ==
    (last.op = "query" /\ ~last.ok) =>
        /\ last.result = <<>>
        /\ store = last.pre
        /\ \A p \in Procs :
              run[p].pc # "idle" =>
                  /\ run[p].articles_from_db = <<>>
                  /\ run[p].pc \in {"supplementing", "persist", "merged", "done"}
                  /\ run[p].pc \in {"merged", "done"} => Supplemented(run[p])

\* a failed lookup over a store holding rows that match and a row whose tags
\* are NULL, in a run that went on to fetch and kept a candidate
C13_Witness ==
    /\ last.op = "query"
    /\ ~last.ok
    /\ \E u \in DOMAIN last.pre : Shared(last.pre[u].tags, last.tags) >= last.k
    /\ \E u \in DOMAIN last.pre : last.pre[u].tags = NullTags
    /\ \E p \in Procs :
          /\ run[p].pc = "persist"
          /\ run[p].supplementary_articles # <<>>

\* C14: an append_articles call that fails leaves the store exactly as it
\* was and does not raise; the run goes on with a merged list made of the
\* cached articles followed by every surviving candidate.
C14_FailedAppendKeepsStore ==
    (last.op = "append" /\ ~last.ok) =>
        /\ store = last.pre
        /\ \A p \in Procs :
              LET r == run[p]
              IN r.pc # "idle" =>
                    /\ r.pc \in {"merged", "done"}
                    /\ Len(r.supplementary_articles) = Len(last.batch)
                    /\ r.articles = r.articles_from_db \o r.supplementary_articles

\* a failed append of a new URL in a run that had a cached article and went
\* on to a generated report
C14_Witness ==
    /\ last.op = "append"
    /\ ~last.ok
    /\ \E i \in 1..Len(last.batch) : last.batch[i].url \notin DOMAIN store
    /\ \E p \in Procs :
          /\ run[p].pc = "done"
          /\ run[p].articles_from_db # <<>>
          /\ run[p].narration = "ok"

C16_BlocksKeepPositions ==
    \A p \in Procs :
        LET r == run[p]
            c == r.context
        IN (r.pc = "done" /\ r.articles # <<>>) =>
              /\ \A j \in 1..Len(c) :
                    /\ c[j].n \in 1..Len(r.articles)
                    /\ c[j].summary = r.articles[c[j].n].summary
                    /\ c[j].url = r.articles[c[j].n].url
                    /\ c[j].summary # ""
              /\ \A j, k \in 1..Len(c) : j < k => c[j].n < c[k].n
              /\ \A i \in 1..Len(r.articles) :
                    ("summary" \in r.articles[i].keys /\ r.articles[i].summary # "")
                        => \E j \in 1..Len(c) : c[j].n = i

\* a merged list whose first article lacks the summary key and whose second
\* has one: the only block is numbered 2
C16_Witness ==
    \E p \in Procs :
        /\ run[p].pc = "done"
        /\ Len(run[p].articles) = 2
        /\ "summary" \notin run[p].articles[1].keys
        /\ Len(run[p].context) = 1
        /\ run[p].context[1].n = 2

\* C17: the prompt sent to the completion call always begins with the whole
\* base block built from the context and the query; with non-empty extra
\* instructions it is the base block, a newline and the instructions, and
\* with empty ones it is the base block alone.
C17_PromptStartsWithBase ==
    \A p \in Procs :
        LET r == run[p]
            base == base_prompt(r.context, r.query)
        IN (r.pc = "done" /\ r.narration # "none") =>
              /\ Len(r.prompt) >= Len(base)
              /\ SubSeq(r.prompt, 1, Len(base)) = base
              /\ r.extra_instructions = "" => r.prompt = base
              /\ r.extra_instructions # "" =>
                    r.prompt = base \o <<"\n", r.extra_instructions>>

\* a Core_Workflow run narrated a non-empty context with extra instructions
C17_Witness ==
    \E p \in Procs :
        /\ run[p].pc = "done"
        /\ run[p].extra_instructions # ""
        /\ run[p].context # <<>>
        /\ Len(run[p].prompt) = 7
        /\ run[p].prompt[7] = run[p].extra_instructions

\* C18: fetching and summarizing a list of URLs gives one result per URL in
\* the order of the list; a URL whose fetch fails has the "Error: ..." marker
\* as raw_content and as summary and is not handed to the summarizer, a URL
\* whose summarization fails has a "Summarization failed: ..." summary, and
\* the other URLs keep their own results.
C18_OneResultPerUrl ==
    (last.op = "get_data_and_summarize" /\ ~last.raised) =>
        LET urls == IF last.mode = "query" THEN last.search.value ELSE last.url_list
            res == last.result
        IN /\ Len(res) = Len(urls)
           /\ \A i \in 1..Len(urls) :
                 LET b == last.world[i]
                     summarizes ==
                         \E k \in 1..MAX_RETRIES :
                             /\ b.attempts[k] = "ok"
                             /\ \A j \in 1..(k - 1) : b.attempts[j] = "cuda"
                 IN /\ res[i].url = urls[i]
                    /\ b.fetch = "fail" =>
                          /\ res[i].raw_content[1] = "Error:"
                          /\ res[i].summary = res[i].raw_content
                          /\ ~res[i].summarized
                    /\ (b.fetch = "long" /\ ~summarizes) =>
                          /\ res[i].raw_content = <<"long text">>
                          /\ res[i].summary[1] = "Summarization failed:"
                    /\ (b.fetch = "long" /\ summarizes) =>
                          /\ res[i].summarized
                          /\ res[i].summary[1] \notin {"Error:", "Summarization failed:"}

\* a list of two URLs: the fetch of the first fails, the summarization of
\* the second fails after a retry, and both have their result
C18_Witness ==
    /\ last.op = "get_data_and_summarize"
    /\ ~last.raised
    /\ Len(last.result) = 2
    /\ last.world[1].fetch = "fail"
    /\ last.world[2].fetch = "long"
    /\ last.world[2].attempts[1] = "cuda"
    /\ last.result[1].summary[1] = "Error:"
    /\ last.result[2].summary[1] = "Summarization failed:"

\* C19: a candidate carrying an error marker, like any other candidate,
\* that has the scheme marker and is not among the cached URLs survives,
\* is offered to append_articles, is merged and, its summary being not
\* empty, appears in the collated context; no further filter removes
\* candidates.
C19_ErrorMarkersFlowThrough ==
    \A p \in Procs :
        LET r == run[p]
            passing == {i \in 1..Len(r.fetched) :
                           /\ HasHttpScheme(r.fetched[i].url)
                           /\ r.fetched[i].url \notin Urls(r.articles_from_db)}
            In(list, a) == \E j \in 1..Len(list) :
                               list[j].url = a.url /\ list[j].summary = a.summary
        IN (r.pc \in {"persist", "merged", "done"} /\ Supplemented(r)) =>
              /\ Len(r.supplementary_articles) >= Cardinality(passing)
              /\ \A i \in passing :
                    /\ In(r.supplementary_articles, r.fetched[i])
                    /\ r.pc \in {"merged", "done"} =>
                          /\ In(r.articles, r.fetched[i])
                          /\ last.op = "append"
                          /\ In(last.batch, r.fetched[i])
                          /\ last.ok => r.fetched[i].url \in DOMAIN store
                    /\ (r.pc = "done" /\ r.fetched[i].summary # "") =>
                          In(r.context, r.fetched[i])

\* a finished run whose fetched candidate with an error marker was stored
\* by a committed append and shows in the context
C19_Witness ==
    /\ last.op = "append"
    /\ last.ok
    /\ \E p \in Procs :
          /\ run[p].pc = "done"
          /\ \E i \in 1..Len(run[p].fetched) :
                LET a == run[p].fetched[i]
                IN /\ a.summary = "Error: timeout"
                   /\ a.url \notin DOMAIN last.pre
                   /\ a.url \in DOMAIN store
                   /\ store[a.url].summary = a.summary
                   /\ \E j \in 1..Len(run[p].context) :
                         run[p].context[j].summary = a.summary

\* C20: a call of the Fetcher that breaks the configuration contract (mode
\* "query" without a query, mode "urls" without a url_list, an unknown mode)
\* raises, whether made through fetch_data, get_data_and_summarize or
\* supplement_data, and is never turned into an empty candidate list.
C20_ContractViolationFatal ==
    (/\ last.op \in {"fetch_data", "get_data_and_summarize", "supplement_data"}
     /\ \/ last.mode = "query" /\ last.query = ""
        \/ last.mode = "urls" /\ last.url_list = <<>>
        \/ last.mode \notin {"query", "urls"})
        => last.raised

\* C22: within one run the stages are called in the order extract_tags,
\* query_database_by_tags, supplement_data, append_articles,
\* collate_article_summaries, generate_analysis_report, each at most once;
\* append_articles only after supplement_data, and no stage is called
\* again after it failed.
C22_StagesOnceInOrder ==
    \A p \in Procs :
        LET c == run[p].calls
            rank(x) == CASE x = "extract_tags" -> 1
                         [] x = "query_database_by_tags" -> 2
                         [] x = "supplement_data" -> 3
                         [] x = "append_articles" -> 4
                         [] x = "collate_article_summaries" -> 5
                         [] OTHER -> 6
        IN /\ \A i, j \in 1..Len(c) : i < j => rank(c[i]) < rank(c[j])
           /\ \A i \in 1..Len(c) :
                 /\ rank(c[i]) >= 2 => c[1] = "extract_tags"
                 /\ rank(c[i]) >= 3 => c[2] = "query_database_by_tags"
                 /\ c[i] = "append_articles" => c[3] = "supplement_data"

\* a finished run went through all six stages, each once, although its
\* append and its completion call failed
C22_Witness ==
    /\ last.op = "append"
    /\ ~last.ok
    /\ \E p \in Procs :
          /\ run[p].pc = "done"
          /\ Len(run[p].calls) = 6
          /\ run[p].narration = "failed"

\* C23: extract_tags returns at most top_n tags, and they are the keywords
\* of the keyword model whose score is strictly above the threshold, in
\* the order of the model.
C23_TagsAboveThreshold ==
    last.op = "extract_tags" =>
        LET kws == last.keywords
            res == last.result
            above == {i \in 1..Len(kws) : kws[i].score > SCORE_THRESHOLD}
        IN /\ Len(res) <= last.top_n
           /\ Len(res) = Cardinality(above)
           /\ \A i \in above :
                 res[Cardinality({k \in above : k <= i})] = kws[i].kw

\* of three ranked keywords the model handed over two, one of them with a
\* score equal to the threshold, and one tag came back
C23_Witness ==
    /\ last.op = "extract_tags"
    /\ last.top_n = 2
    /\ Len(last.ranked) = 3
    /\ Len(last.keywords) = 2
    /\ \E i \in 1..2 : last.keywords[i].score = SCORE_THRESHOLD
    /\ Len(last.result) = 1

\* C24: a fetched candidate whose URL is stored but was not returned by the
\* lookup of the run survives, is in the merged list with the summary just
\* fetched, and the stored row of that URL stays as it was.
C24_UnretrievedRowNotClobbered ==
    \A p \in Procs :
        LET r == run[p]
        IN (r.pc \in {"merged", "done"} /\ Supplemented(r)) =>
              \A i \in 1..Len(r.fetched) :
                  LET a == r.fetched[i]
                  IN (/\ a.url \in DOMAIN r.store0
                      /\ a.url \notin Urls(r.articles_from_db)
                      /\ HasHttpScheme(a.url)) =>
                        /\ \E j \in 1..Len(r.articles) :
                              /\ r.articles[j].url = a.url
                              /\ r.articles[j].summary = a.summary
                        /\ a.url \in DOMAIN store
                        /\ store[a.url] = r.store0[a.url]

\* a committed append offered a stored URL the successful lookup had not
\* returned, with another summary; the run merged the fetched summary
C24_Witness ==
    /\ last.op = "append"
    /\ last.ok
    /\ \E p \in Procs :
          /\ run[p].pc = "done"
          /\ run[p].articles_from_db # <<>>
          /\ \E j \in 1..Len(run[p].articles) :
                LET a == run[p].articles[j]
                IN /\ a.url \in DOMAIN last.pre
                   /\ a.url \notin Urls(run[p].articles_from_db)
                   /\ a.summary # last.pre[a.url].summary
                   /\ store[a.url].summary = last.pre[a.url].summary

\* C25: safe_summarize ends after at most MAX_RETRIES attempts: it makes a
\* further attempt only after a RuntimeError naming CUDA and only while
\* attempts remain; any other exception and the CUDA error of the last
\* attempt leave it, and the entry then gets a "Summarization failed: ..."
\* summary.
C25_BoundedRetries ==
    (last.op = "get_data_and_summarize" /\ ~last.raised) =>
        \A i \in 1..Len(last.result) :
            LET e == last.result[i]
                a == last.world[i].attempts
                n == e.attempts
                failed == e.summary[1] = "Summarization failed:"
            IN /\ n <= MAX_RETRIES
               /\ e.summarized <=> n >= 1
               /\ e.summary # <<"Summary error: Maximum retries exceeded">>
               /\ (e.summarized /\ last.world[i].fetch = "long") =>
                     /\ \A j \in 1..(n - 1) : a[j] = "cuda"
                     /\ a[n] = "cuda" => n = MAX_RETRIES
                     /\ failed <=> a[n] # "ok"
                     /\ a[n] = "ok" => e.summary = <<"summary of", "long text">>

\* an entry whose every attempt met a CUDA error: MAX_RETRIES attempts and
\* a failure summary carrying that error
C25_Witness ==
    /\ last.op = "get_data_and_summarize"
    /\ ~last.raised
    /\ \E i \in 1..Len(last.result) :
          /\ \A j \in 1..MAX_RETRIES : last.world[i].attempts[j] = "cuda"
          /\ last.result[i].attempts = MAX_RETRIES
          /\ last.result[i].summary =
                <<"Summarization failed:", " ", "CUDA out of memory">>

\* C26: when the Fetcher call of supplement_data raises, supplement_data
\* returns the empty list, append_articles is not called, the store is as
\* the run found it and the merged list is the cached articles.
C26_FailedFetcherKeepsCache ==
    \A p \in Procs :
        LET r == run[p]
        IN r.fetcher = "raised" =>
              /\ r.fetched = <<>>
              /\ r.pc \in {"merged", "done"}
              /\ "append_articles" \notin Range(r.calls)
              /\ store = r.store0
              /\ r.articles = r.articles_from_db

\* a run with a non-empty query and cached articles whose Fetcher raised and
\* which narrated the cached articles alone
C26_Witness ==
    \E p \in Procs :
        /\ run[p].fetcher = "raised"
        /\ run[p].query # ""
        /\ run[p].articles_from_db # <<>>
        /\ run[p].pc = "done"
        /\ run[p].narration = "ok"

\* C28: with the default min_matches of 4 a lookup returns an article whose
\* tags are the tag set of the query only if that set has at least 4
\* distinct tags; a run whose query has fewer than 4 extracted tags finds no
\* cached article and calls the Fetcher, whatever earlier runs of the
\* same query have persisted.
C28_FewTagsNeverCached ==
    \A p \in Procs :
        LET r == run[p]
            distinct == Cardinality(Range(r.tags))
        IN r.pc \in {"supplementing", "persist", "merged", "done"} =>
              /\ \A i \in 1..Len(r.articles_from_db) :
                    r.articles_from_db[i].tags = r.tags => distinct >= 4
              /\ distinct < 4 =>
                    /\ r.articles_from_db = <<>>
                    /\ r.pc # "supplementing" => Supplemented(r)

\* a run of a one-tag query began on a store holding an article that an
\* earlier run of the same query persisted with that tag set; its lookup
\* succeeded, returned nothing, and the run fetched again
C28_Witness ==
    \E p \in Procs :
        LET r == run[p]
        IN /\ r.pc = "persist"
           /\ Len(r.tags) = 1
           /\ r.articles_from_db = <<>>
           /\ last.op = "query"
           /\ last.ok
           /\ \E u \in DOMAIN r.store0 :
                 /\ r.store0[u].retrieval_timestamp >= 1
                 /\ r.store0[u].query = r.query
                 /\ r.store0[u].tags = r.tags

\* a run that has passed its append holds every survivor in its merged list
KeepsSurvivors(r) ==
    ("append_articles" \in Range(r.calls) /\ r.pc \in {"merged", "done"}) =>
        \A i \in 1..Len(r.supplementary_articles) :
            GetUrl(r.supplementary_articles[i]) \in Urls(r.articles)

\* C21: under any interleaving of concurrent runs and direct append_articles
\* and store_articles calls no step removes a row of the store; a committed
\* append leaves one row for each URL of its batch and, where a row was
\* already committed, that earlier row (the first write wins); and every run
\* still carries the articles it fetched in its merged set.
C21_ConcurrentWritersOneRowPerUrl ==
    /\ [][DOMAIN store \subseteq DOMAIN store']_vars
    /\ [](last.op = "append" /\ last.ok =>
            \A i \in 1..Len(last.batch) :
                LET u == last.batch[i].url
                IN /\ u \in DOMAIN store
                   /\ u \in DOMAIN last.pre => store[u] = last.pre[u])
    /\ [](\A p \in Procs : KeepsSurvivors(run[p]))

\* both runs found the cache insufficient, fetched the same new URL with
\* different summaries, both appends committed, the row holds the summary of
\* the run that committed first, and both runs completed with the article
C21_Witness ==
    /\ \A p \in Procs :
          /\ run[p].pc = "done"
          /\ "append_articles" \in Range(run[p].calls)
          /\ UNew \in Urls(run[p].supplementary_articles)
          /\ UNew \in Urls(run[p].articles)
          /\ run[p].narration = "ok"
    /\ run[1].supplementary_articles[1].summary = "s1"
    /\ run[2].supplementary_articles[1].summary = "s2"
    /\ UNew \in DOMAIN store
    /\ store[UNew].summary = "s2"
    /\ store[UNew].retrieval_timestamp = 1
    /\ clock = 2
    /\ last.op = "append"
    /\ last.ok
    /\ UNew \in DOMAIN last.pre

\* C30: any two consecutive search_tweets calls on one GoogleSearchAPI
\* instance issue their requests at least REQUEST_DELAY seconds apart.
C30_RequestsSpaced ==
    \A i \in 1..(Len(requests) - 1) :
        requests[i + 1].at - requests[i].at >= 2

\* C27: the detailed report a run_agent invocation puts at the head of its
\* output was produced by a generate_report_tool call of that same
\* invocation, for that invocation's query.
C27_ReportFromOwnInvocation ==
    \A p \in Procs :
        invocation[p].pc = "done" =>
            /\ invocation[p].detailed_report.invocation = invocation[p].id
            /\ invocation[p].detailed_report.query = invocation[p].query

\* the worker has put exactly one message, of the status its outcome calls
\* for, and the script has not taken it yet
OneMessageQueued ==
    /\ Len(report_queue) = 1
    /\ report_queue[1].status =
          (IF thread.outcome = "returned" THEN "success" ELSE "error")
    /\ thread.outcome = "returned" => report_queue[1].body = script.query

\* C29: the worker puts exactly one message on report_queue before it ends
\* (success with the report when run_agent returns, error when it raises an
\* Exception); once the worker has ended the polling loop ends; and the
\* report_queue.get() after thread.join() finds that message, so it never
\* blocks.
C29_GetAfterJoinNeverBlocks ==
    /\ [](thread.pc \in {"unstarted", "running"} => report_queue = <<>>)
    /\ [](thread.pc \in {"put", "ended"} /\ script.pc # "shown" => OneMessageQueued)
    /\ [](script.pc = "get" => thread.pc = "ended" /\ ENABLED Get)
    /\ [](script.pc = "shown" => report_queue = <<>> /\ script.result # NoMessage)
    /\ (thread.pc = "ended" ~> script.pc = "shown")

\* run_agent raised after the script had shown some of its logs; the worker
\* ended, the loop ended and the get returned the error message
C29_Witness ==
    /\ script.pc = "shown"
    /\ script.shown >= 1
    /\ script.result = Message("error", "message")
    /\ thread.pc = "ended"
    /\ thread.outcome = "raised"
    /\ report_queue = <<>>

====
